---- MODULE Spec2Model ----
(***************************************************************************)
(* Model of exporter/splunkhecexporter/client.go: the push operations of   *)
(* the Splunk HEC client (pushMetricsData, pushTraceData, pushLogData),    *)
(* the body encoding and compression decision, the HTTP transmission and   *)
(* the WaitGroup-based stop().                                             *)
(***************************************************************************)
EXTENDS Integers, Sequences, FiniteSets, TLC

(***************************************************************************)
(* Bounds of the model.                                                    *)
(***************************************************************************)
\* longest event sequence a metrics / traces converter hands over
MaxEvents == 2
\* longest log batch
MaxLogs == 3
\* largest number of records a converter drops before the handoff
MaxDropped == 1
\* number of concurrent callers of the push operations (SpecConc)
NumPushers == 2

(***************************************************************************)
(* Program constants.                                                      *)
(***************************************************************************)
\* "fit into a single ethernet frame": client.go:185 and client.go:238
CompressionThreshold == 1500
\* http.StatusOK, client.go:87 and client.go:150
StatusOK == 200
\* http.StatusMultipleChoices, client.go:87 and client.go:150
StatusMultipleChoices == 300

Pushers == 1..NumPushers
\* the single caller of the sequential specification Spec
SeqPushers == {1}
\* identities of the gzip writers the pool can hand out: a push holds at
\* most one, so there are never more writers in use than pushers
Engines == 1..NumPushers

(***************************************************************************)
(* Events and their serialisation.  An event is identified by a small      *)
(* number; BadEvent is an event json cannot serialise.  JsonLen gives the  *)
(* length in bytes of an event's JSON object: with the 5 bytes of framing  *)
(* the three events give bodies of 100, 1500 and 1501 bytes.               *)
(***************************************************************************)
BadEvent == "bad"
SmallEvent == "small"
FrameEvent == "frame"
BigEvent == "big"
Events == {BadEvent, SmallEvent, FrameEvent, BigEvent}

JsonLen(e) ==
  CASE e = SmallEvent -> 95
    [] e = FrameEvent -> 1495
    [] e = BigEvent -> 1496
    [] OTHER -> 0

\* the bytes of a body are a sequence of tokens
Json(e) == [tok |-> "json", ev |-> e]
\* the "\n" json.Encoder.Encode writes after every value
NL == [tok |-> "nl", ev |-> ""]
\* the separator "\r\n\r\n"
SEP == [tok |-> "sep", ev |-> ""]

TokLen(t) ==
  CASE t.tok = "json" -> JsonLen(t.ev)
    [] t.tok = "nl" -> 1
    [] t.tok = "sep" -> 4

RECURSIVE BufLen(_)
BufLen(b) == IF b = <<>> THEN 0 ELSE TokLen(Head(b)) + BufLen(Tail(b))

\* encoder.Encode(e)
EncoderEncode(e) == <<Json(e), NL>>

\* a round of the loop that writes no separator
EncodeOneNoSeparator(e) == EncoderEncode(e)

\* one round of the loop of encodeBody / encodeBodyEvents
EncodeOne(e) == EncoderEncode(e) \o <<SEP>>

RECURSIVE EncodeLoop(_)
EncodeLoop(evs) ==
  IF evs = <<>> THEN <<>> ELSE EncodeOne(Head(evs)) \o EncodeLoop(Tail(evs))

\* json can serialise every event of the sequence
Serializable(evs) == \A i \in 1..Len(evs) : evs[i] # BadEvent

\* encodeBody: the buffer, or the error of the first event that fails
encodeBody(dps) ==
  IF Serializable(dps)
  THEN [buf |-> EncodeLoop(dps), err |-> FALSE]
  ELSE [buf |-> <<>>, err |-> TRUE]

\* encodeBodyEvents: the buffer, or the error of the first event that fails
encodeBodyEvents(evs) ==
  IF Serializable(evs)
  THEN [buf |-> EncodeLoop(evs), err |-> FALSE]
  ELSE [buf |-> <<>>, err |-> TRUE]

(***************************************************************************)
(* Errors.  An error value is a record: type is the dynamic type of the    *)
(* outermost error ("permanent" for consumererror.Permanent, "partial" for *)
(* consumererror.PartialLogsError, "plain" otherwise), inner the type of   *)
(* the error it wraps, cause what failed, status / text what an HTTP       *)
(* error carries and failed the logs a partial error carries.              *)
(***************************************************************************)
NilErr ==
  [type |-> "nil", inner |-> "nil", cause |-> "none", status |-> 0,
   text |-> "", failed |-> <<>>]

PlainErr(cause) ==
  [type |-> "plain", inner |-> "nil", cause |-> cause, status |-> 0,
   text |-> "", failed |-> <<>>]

\* http.StatusText
StatusText(s) ==
  CASE s = 200 -> "OK"
    [] s = 300 -> "Multiple Choices"
    [] s = 404 -> "Not Found"
    [] OTHER -> ""

\* fmt.Errorf("HTTP %d %q", resp.StatusCode, http.StatusText(resp.StatusCode))
HTTPErr(s) ==
  [type |-> "plain", inner |-> "nil", cause |-> "http", status |-> s,
   text |-> StatusText(s), failed |-> <<>>]

\* consumererror.Permanent(err)
Permanent(err) == [err EXCEPT !.type = "permanent", !.inner = err.type]

\* consumererror.PartialLogsError(err, failed)
PartialLogsError(err, failedLogs) ==
  [err EXCEPT !.type = "partial", !.inner = err.type, !.failed = failedLogs]

\* consumererror.IsPermanent: a type assertion on the outermost error
IsPermanent(err) == err.type = "permanent"

(***************************************************************************)
(* Wire bodies and gzip.  A body is raw bytes or a gzip stream; a gzip     *)
(* stream is complete when it has its header and its trailer.              *)
(***************************************************************************)
RawBody(b) == [form |-> "raw", bytes |-> b, hdr |-> FALSE, trailer |-> FALSE]
EmptyGzipBuf == [form |-> "gzip", bytes |-> <<>>, hdr |-> FALSE, trailer |-> FALSE]

\* gzip.NewWriter(nil): a writer of the pool before its first Reset
NewZipper == [dst |-> 0, hdr |-> FALSE, pending |-> <<>>, closed |-> FALSE]
\* the state gzip.Writer.Reset(w) leaves the writer in
ResetZipper(p) == [dst |-> p, hdr |-> FALSE, pending |-> <<>>, closed |-> FALSE]

\* the static headers of the client (c.headers)
StaticHeaders ==
  ("Authorization" :> "Splunk token") @@ ("Content-Type" :> "application/json")

\* req.Header.Set(k, v)
HeaderSet(h, k, v) == [x \in DOMAIN h \cup {k} |-> IF x = k THEN v ELSE h[x]]

(***************************************************************************)
(* Batches.  A batch is what a converter yields for it: the events and the *)
(* number of records it dropped; every record is converted or dropped.     *)
(***************************************************************************)
SeqsUpTo(S, n) == UNION {[1..k -> S] : k \in 0..n}
Batches(n, maxDropped) == [events : SeqsUpTo(Events, n), dropped : 0..maxDropped]
NoBatch == [events |-> <<>>, dropped |-> 0]

\* metricDataToSplunk / traceDataToSplunk: (events, numDropped)
Converted(b) == [events |-> b.events, dropped |-> b.dropped]
\* numMetricPoint(md)
numMetricPoint(md) == Len(md.events) + md.dropped
\* td.SpanCount()
SpanCount(td) == Len(td.events) + td.dropped

(***************************************************************************)
(* The chunk producer of the logs path (logDataWrapper.chunkEvents,        *)
(* numLogs, subLogs): records are appended to a buffer and a chunk is cut  *)
(* when the next record would exceed maxContentLength or the input is      *)
(* exhausted; a record that cannot be encoded gives a terminal error chunk *)
(* whose index is the first record not delivered yet.                      *)
(***************************************************************************)
RECURSIVE ChunkScan(_, _, _, _, _)
ChunkScan(recs, pos, j, size, max) ==
  IF j > Len(recs) THEN [index |-> pos, n |-> j - pos, bad |-> FALSE]
  ELSE IF recs[j] = BadEvent THEN [index |-> pos, n |-> 0, bad |-> TRUE]
  ELSE LET l == BufLen(EncodeOne(recs[j])) IN
       IF size > 0 /\ size + l > max
       THEN [index |-> pos, n |-> j - pos, bad |-> FALSE]
       ELSE ChunkScan(recs, pos, j + 1, size + l, max)

NoChunk == [index |-> 0, n |-> 0, buf |-> <<>>, err |-> NilErr]

NextChunk(recs, pos, max) ==
  LET c == ChunkScan(recs, pos, pos, 0, max) IN
  [index |-> c.index, n |-> c.n,
   buf |-> IF c.bad THEN <<>> ELSE EncodeLoop(SubSeq(recs, pos, pos + c.n - 1)),
   err |-> IF c.bad THEN Permanent(PlainErr("encode")) ELSE NilErr]

\* logs.numLogs(index): the records from index on
numLogs(ld, index) == Len(ld.events) - index + 1
\* logs.subLogs(index): the batch re-sliced from index on
subLogs(ld, index) == SubSeq(ld.events, index, Len(ld.events))

(***************************************************************************)
(* The state.                                                              *)
(***************************************************************************)
VARIABLES
  config,     \* c.config: disableCompression, maxContentLength
  wg,         \* c.wg: the counter of the WaitGroup
  stopPc,     \* where the caller of stop() is
  pool,       \* c.zippers: the idle gzip writers
  zw,         \* the state of every gzip writer
  pc,         \* where each push is
  kind,       \* "metrics", "traces" or "logs"
  batch,      \* the batch a push was called with
  buf,        \* the encoded, uncompressed buffer (b in getReader)
  body,       \* the body handed to the request
  compressed, \* the compressed flag that goes with body
  err,        \* the err variable of the running function
  zwOf,       \* the gzip writer a push holds (0: none)
  gzbuf,      \* the output buffer of the push's gzip writer (buf / gzipBuf)
  sent,       \* the requests handed to c.client.Do, in order
  result,     \* what the push returned: count and error
  prodPc,     \* the chunk producer of a logs push: "off", "run", "done"
  prodPos,    \* the first record the producer has not put in a chunk
  chunkCh,    \* chunkCh: the chunk in the handoff channel
  chClosed,   \* chunkCh was closed
  cur,        \* chunk, the loop variable of pushLogData
  chunkNo,    \* how many chunks the loop received
  cancelled,  \* cancel() was called
  req         \* the request built by http.NewRequestWithContext

vars ==
  <<config, wg, stopPc, pool, zw, pc, kind, batch, buf, body, compressed, err,
    zwOf, gzbuf, sent, result, prodPc, prodPos, chunkCh, chClosed, cur,
    chunkNo, cancelled, req>>

wgVars == <<wg, stopPc>>
poolVars == <<pool, zw, zwOf, gzbuf>>
prodVars == <<prodPc, prodPos, chunkCh, chClosed, cancelled>>
callVars == <<kind, batch>>
bodyVars == <<buf, body, compressed, req>>
loopVars == <<cur, chunkNo>>

NoResult == [count |-> 0, err |-> NilErr]
NoBody == RawBody(<<>>)
NoReq == [headers |-> <<>>, body |-> NoBody, src |-> <<>>, chunk |-> 0]

Configs == [disableCompression : BOOLEAN, maxContentLength : {250, 1700}]

Init ==
  /\ config \in Configs
  /\ wg = 0
  /\ stopPc = "idle"
  /\ pool = {}
  /\ zw = [e \in Engines |-> NewZipper]
  /\ pc = [p \in Pushers |-> "idle"]
  /\ kind = [p \in Pushers |-> "none"]
  /\ batch = [p \in Pushers |-> NoBatch]
  /\ buf = [p \in Pushers |-> <<>>]
  /\ body = [p \in Pushers |-> NoBody]
  /\ compressed = [p \in Pushers |-> FALSE]
  /\ err = [p \in Pushers |-> NilErr]
  /\ zwOf = [p \in Pushers |-> 0]
  /\ gzbuf = [p \in Pushers |-> EmptyGzipBuf]
  /\ sent = [p \in Pushers |-> <<>>]
  /\ result = [p \in Pushers |-> NoResult]
  /\ prodPc = [p \in Pushers |-> "off"]
  /\ prodPos = [p \in Pushers |-> 1]
  /\ chunkCh = [p \in Pushers |-> <<>>]
  /\ chClosed = [p \in Pushers |-> FALSE]
  /\ cur = [p \in Pushers |-> NoChunk]
  /\ chunkNo = [p \in Pushers |-> 0]
  /\ cancelled = [p \in Pushers |-> FALSE]
  /\ req = [p \in Pushers |-> NoReq]

(***************************************************************************)
(* The gzip writer.                                                        *)
(***************************************************************************)
\* zippers.Get(): an idle writer of the pool as it was put back, or, from
\* the pool's New, a writer that was never used.  PoolCandidatesAnyEngine is
\* a pool that hands out any writer, idle or not
PoolCandidatesAnyEngine(held) == Engines

\* zippers.Get()
PoolCandidates(held) ==
  LET unused == {e \in Engines : e \notin pool /\ \A q \in Pushers : held[q] # e}
  IN pool \cup {e \in unused : \A f \in unused : e <= f}

\* gzip.Writer.Write(bytes): the header goes out with the first write, the
\* bytes are held by the compressor until a Flush or a Close
ZWrite(z, bytes) == [z EXCEPT !.hdr = TRUE, !.pending = @ \o bytes]
BufAfterWrite(g, z) == [g EXCEPT !.hdr = TRUE]

\* gzip.Writer.Flush(): what the compressor holds goes out
ZFlush(z) == [z EXCEPT !.pending = <<>>]
BufAfterFlush(g, z) == [g EXCEPT !.bytes = @ \o z.pending]

\* gzip.Writer.Close(): header if not written yet, what the compressor
\* holds, then the trailer; a closed writer is left alone
ZClose(z) == [z EXCEPT !.hdr = TRUE, !.pending = <<>>, !.closed = TRUE]
BufAfterClose(g, z) ==
  IF z.closed THEN g
  ELSE [g EXCEPT !.hdr = TRUE, !.bytes = @ \o z.pending, !.trailer = TRUE]

\* a write of the gzip writer z lands in the buffer z was reset onto
GzUpdate(gz, z, g) == IF z.dst \in Pushers THEN [gz EXCEPT ![z.dst] = g] ELSE gz
GzOf(gz, z) == IF z.dst \in Pushers THEN gz[z.dst] ELSE EmptyGzipBuf

(***************************************************************************)
(* Entry and exit of a push: c.wg.Add(1) and the deferred c.wg.Done().     *)
(***************************************************************************)
FirstPc(k) ==
  CASE k = "metrics" -> "m_convert"
    [] k = "traces" -> "t_convert"
    [] k = "logs" -> "l_get"

\* a caller invokes pushMetricsData(ctx, md)
CallPushMetricsData(p, batches) ==
  /\ pc[p] = "idle"
  /\ \E b \in batches :
       /\ kind' = [kind EXCEPT ![p] = "metrics"]
       /\ batch' = [batch EXCEPT ![p] = b]
  /\ pc' = [pc EXCEPT ![p] = "entered"]
  /\ UNCHANGED <<config, wgVars, poolVars, prodVars, bodyVars, loopVars, err,
                 sent, result>>

\* a caller invokes pushTraceData(ctx, td)
CallPushTraceData(p, batches) ==
  /\ pc[p] = "idle"
  /\ \E b \in batches :
       /\ kind' = [kind EXCEPT ![p] = "traces"]
       /\ batch' = [batch EXCEPT ![p] = b]
  /\ pc' = [pc EXCEPT ![p] = "entered"]
  /\ UNCHANGED <<config, wgVars, poolVars, prodVars, bodyVars, loopVars, err,
                 sent, result>>

\* a caller invokes pushLogData(ctx, ld)
CallPushLogData(p, batches) ==
  /\ pc[p] = "idle"
  /\ \E b \in batches :
       /\ kind' = [kind EXCEPT ![p] = "logs"]
       /\ batch' = [batch EXCEPT ![p] = b]
  /\ pc' = [pc EXCEPT ![p] = "entered"]
  /\ UNCHANGED <<config, wgVars, poolVars, prodVars, bodyVars, loopVars, err,
                 sent, result>>

\* the counter after c.wg.Add(1)
WgAfterAdd(counter) == counter + 1

\* a deferred c.wg.Done() that leaves the counter as it is
WgAfterDoneKeeps(counter) == counter

\* the counter after c.wg.Done()
WgAfterDone(counter) == counter - 1

\* c.wg.Add(1)
WgAdd(p) ==
  /\ pc[p] = "entered"
  /\ wg' = WgAfterAdd(wg)
  /\ pc' = [pc EXCEPT ![p] = FirstPc(kind[p])]
  /\ UNCHANGED <<config, stopPc, poolVars, prodVars, callVars, bodyVars,
                 loopVars, err, sent, result>>

\* what the deferred c.wg.Done() does to a caller of Wait: the one that
\* brings the counter to zero releases the blocked waiter
WaiterAfterDone(counter, waiter) ==
  IF counter = 0 /\ waiter = "blocked" THEN "released" ELSE waiter

\* the deferred c.wg.Done()
WgDone(p) ==
  /\ pc[p] = "exit"
  /\ wg' = WgAfterDone(wg)
  /\ stopPc' = WaiterAfterDone(WgAfterDone(wg), stopPc)
  /\ pc' = [pc EXCEPT ![p] = "ret"]
  /\ UNCHANGED <<config, poolVars, prodVars, callVars, bodyVars, loopVars,
                 err, sent, result>>

\* the push returns to its caller; its locals are gone
Return(p) ==
  /\ pc[p] = "ret"
  /\ pc' = [pc EXCEPT ![p] = "returned"]
  /\ buf' = [buf EXCEPT ![p] = <<>>]
  /\ body' = [body EXCEPT ![p] = NoBody]
  /\ compressed' = [compressed EXCEPT ![p] = FALSE]
  /\ req' = [req EXCEPT ![p] = NoReq]
  /\ err' = [err EXCEPT ![p] = NilErr]
  /\ cur' = [cur EXCEPT ![p] = NoChunk]
  /\ gzbuf' = [gzbuf EXCEPT ![p] = EmptyGzipBuf]
  /\ UNCHANGED <<config, wgVars, pool, zw, zwOf, prodVars, callVars, chunkNo,
                 sent, result>>

(***************************************************************************)
(* getReader.                                                              *)
(***************************************************************************)
\* getReader with a threshold that is off by one: 1500 bytes are compressed
getReaderCompressesAtThreshold(disableCompression, n) ==
  ~disableCompression /\ n >= CompressionThreshold

\* line 238: whether getReader compresses a buffer of n bytes
getReaderCompresses(disableCompression, n) ==
  ~disableCompression /\ n > CompressionThreshold

\* where encodeBody / encodeBodyEvents return to
EncodedPc(k) == IF k = "metrics" THEN "m_encoded" ELSE "t_encoded"

\* lines 239-242: zippers.Get(), the deferred Put is armed, w.Reset(buf)
ReaderGet(p) ==
  /\ pc[p] = "gr_get"
  /\ \E e \in PoolCandidates(zwOf) :
       /\ pool' = pool \ {e}
       /\ zwOf' = [zwOf EXCEPT ![p] = e]
       /\ zw' = [zw EXCEPT ![e] = ResetZipper(p)]
  /\ gzbuf' = [gzbuf EXCEPT ![p] = EmptyGzipBuf]
  /\ pc' = [pc EXCEPT ![p] = "gr_write"]
  /\ UNCHANGED <<config, wgVars, prodVars, callVars, bodyVars, loopVars, err,
                 sent, result>>

\* lines 243-251: w.Write(b.Bytes()), w.Close() and what getReader returns
ReaderWrite(p, outcomes) ==
  /\ pc[p] = "gr_write"
  /\ LET e == zwOf[p]
         w1 == ZWrite(zw[e], buf[p])
         g1 == BufAfterWrite(GzOf(gzbuf, zw[e]), zw[e])
         g2 == BufAfterClose(g1, w1)
     IN \E o \in outcomes :
          CASE o = "write_fails" ->
                 /\ err' = [err EXCEPT ![p] = PlainErr("gzip")]
                 /\ body' = [body EXCEPT ![p] = RawBody(buf[p])]
                 /\ compressed' = [compressed EXCEPT ![p] = FALSE]
                 /\ UNCHANGED <<zw, gzbuf>>
            [] o = "close_fails" ->
                 /\ err' = [err EXCEPT ![p] = PlainErr("gzip")]
                 /\ body' = [body EXCEPT ![p] = RawBody(buf[p])]
                 /\ compressed' = [compressed EXCEPT ![p] = FALSE]
                 /\ zw' = [zw EXCEPT ![e] = ZClose(w1)]
                 /\ gzbuf' = GzUpdate(gzbuf, zw[e], g1)
            [] OTHER ->
                 /\ err' = [err EXCEPT ![p] = NilErr]
                 /\ body' = [body EXCEPT ![p] = g2]
                 /\ compressed' = [compressed EXCEPT ![p] = TRUE]
                 /\ zw' = [zw EXCEPT ![e] = ZClose(w1)]
                 /\ gzbuf' = GzUpdate(gzbuf, zw[e], g2)
  /\ pc' = [pc EXCEPT ![p] = "gr_put"]
  /\ UNCHANGED <<config, wgVars, pool, zwOf, prodVars, callVars, buf, req,
                 loopVars, sent, result>>

\* the deferred zippers.Put(w) of getReader, and its return
ReaderPut(p) ==
  /\ pc[p] = "gr_put"
  /\ pool' = pool \cup {zwOf[p]}
  /\ zwOf' = [zwOf EXCEPT ![p] = 0]
  /\ pc' = [pc EXCEPT ![p] = EncodedPc(kind[p])]
  /\ UNCHANGED <<config, wgVars, zw, gzbuf, prodVars, callVars, bodyVars,
                 loopVars, err, sent, result>>

(***************************************************************************)
(* The request and its transmission.                                       *)
(***************************************************************************)
\* the headers without the Content-Encoding of a compressed body
RequestHeadersStaticOnly(isCompressed) == StaticHeaders

\* lines 70-76 and 133-139: the static headers, then Content-Encoding
RequestHeaders(isCompressed) ==
  IF isCompressed
  THEN HeaderSet(StaticHeaders, "Content-Encoding", "gzip")
  ELSE StaticHeaders

\* the request of body b, built from the events evs (chunk k of a logs push)
NewRequest(b, isCompressed, evs, k) ==
  [headers |-> RequestHeaders(isCompressed), body |-> b, src |-> evs, chunk |-> k]

\* a request handed to c.client.Do, with what came back for it
Sent(r, o) ==
  [headers |-> r.headers, body |-> r.body, src |-> r.src, chunk |-> r.chunk,
   outcome |-> o]

\* line 87: the status check of pushMetricsData
MetricsStatusFails(s) == s < StatusOK \/ s >= StatusMultipleChoices

\* the status check of postEvents with 300 taken for a success
PostStatusFailsAbove300(s) == s < StatusOK \/ s > StatusMultipleChoices

\* line 150: the status check of postEvents
PostStatusFails(s) == s < StatusOK \/ s >= StatusMultipleChoices

\* what c.client.Do can come back with: a transport-level failure, or a
\* response with a status
TransportFailure == [transport |-> TRUE, status |-> 0]
Response(s) == [transport |-> FALSE, status |-> s]
DoOutcomes(statuses) == {TransportFailure} \cup {Response(s) : s \in statuses}

\* lines 78-93: the error of c.client.Do and of the status check in
\* pushMetricsData
MetricsDoErr(outcome) ==
  IF outcome.transport THEN PlainErr("transport")
  ELSE IF MetricsStatusFails(outcome.status) THEN HTTPErr(outcome.status)
  ELSE NilErr

\* a postEvents that swallows the failure of the transmission
PostDoErrSwallowed(outcome) == NilErr

\* lines 141-157: the same in postEvents
PostDoErr(outcome) ==
  IF outcome.transport THEN PlainErr("transport")
  ELSE IF PostStatusFails(outcome.status) THEN HTTPErr(outcome.status)
  ELSE NilErr

(***************************************************************************)
(* pushMetricsData.                                                        *)
(***************************************************************************)
\* an early return that is never taken
NoEventsNever(events) == FALSE

\* lines 56 and 106: the converter yielded no events
NoEvents(events) == Len(events) = 0

\* a successful push of metrics that reports every point as dropped
MetricsDoneCountsAll(md) == [count |-> numMetricPoint(md), err |-> NilErr]

\* line 57 and line 95: what a push of metrics returns without failure
MetricsDone(md) == [count |-> Converted(md).dropped, err |-> NilErr]
\* lines 62 and 67: a permanent failure
MetricsPermanent(md, e) == [count |-> numMetricPoint(md), err |-> Permanent(e)]
\* a failed transmission that reports only what the converter dropped
MetricsFailedOnlyDropped(md, e) == [count |-> Converted(md).dropped, err |-> e]

\* lines 80 and 92: a failed transmission
MetricsFailed(md, e) == [count |-> numMetricPoint(md), err |-> e]

\* lines 55-58: metricDataToSplunk and the return when there are no events
MetricsConvert(p) ==
  /\ pc[p] = "m_convert"
  /\ IF NoEvents(Converted(batch[p]).events)
     THEN /\ result' = [result EXCEPT ![p] = MetricsDone(batch[p])]
          /\ pc' = [pc EXCEPT ![p] = "exit"]
     ELSE /\ pc' = [pc EXCEPT ![p] = "m_encode"]
          /\ UNCHANGED result
  /\ UNCHANGED <<config, wgVars, poolVars, prodVars, callVars, bodyVars,
                 loopVars, err, sent>>

\* line 60 with lines 222-232 and 236-238: encodeBody up to getReader's
\* decision to compress
MetricsEncode(p) ==
  /\ pc[p] = "m_encode"
  /\ LET enc == encodeBody(Converted(batch[p]).events) IN
     IF enc.err
     THEN /\ err' = [err EXCEPT ![p] = PlainErr("json")]
          /\ pc' = [pc EXCEPT ![p] = "m_encoded"]
          /\ UNCHANGED <<buf, body, compressed>>
     ELSE IF getReaderCompresses(config.disableCompression, BufLen(enc.buf))
     THEN /\ buf' = [buf EXCEPT ![p] = enc.buf]
          /\ pc' = [pc EXCEPT ![p] = "gr_get"]
          /\ UNCHANGED <<err, body, compressed>>
     ELSE /\ buf' = [buf EXCEPT ![p] = enc.buf]
          /\ body' = [body EXCEPT ![p] = RawBody(enc.buf)]
          /\ compressed' = [compressed EXCEPT ![p] = FALSE]
          /\ err' = [err EXCEPT ![p] = NilErr]
          /\ pc' = [pc EXCEPT ![p] = "m_encoded"]
  /\ UNCHANGED <<config, wgVars, poolVars, prodVars, callVars, req, loopVars,
                 sent, result>>

\* lines 61-63: the check of encodeBody's error
MetricsEncoded(p) ==
  /\ pc[p] = "m_encoded"
  /\ IF err[p] # NilErr
     THEN /\ result' = [result EXCEPT ![p] = MetricsPermanent(batch[p], err[p])]
          /\ pc' = [pc EXCEPT ![p] = "exit"]
     ELSE /\ pc' = [pc EXCEPT ![p] = "m_newreq"]
          /\ UNCHANGED result
  /\ UNCHANGED <<config, wgVars, poolVars, prodVars, callVars, bodyVars,
                 loopVars, err, sent>>

\* lines 65-76: http.NewRequestWithContext and the headers
MetricsNewRequest(p) ==
  /\ pc[p] = "m_newreq"
  /\ \/ /\ result' = [result EXCEPT
               ![p] = MetricsPermanent(batch[p], PlainErr("request"))]
        /\ pc' = [pc EXCEPT ![p] = "exit"]
        /\ UNCHANGED req
     \/ /\ req' = [req EXCEPT ![p] =
               NewRequest(body[p], compressed[p], Converted(batch[p]).events, 1)]
        /\ pc' = [pc EXCEPT ![p] = "m_do"]
        /\ UNCHANGED result
  /\ UNCHANGED <<config, wgVars, poolVars, prodVars, callVars, buf, body,
                 compressed, loopVars, err, sent>>

\* lines 78-95: c.client.Do, the status check and the return
MetricsDo(p, outcomes) ==
  /\ pc[p] = "m_do"
  /\ \E o \in outcomes :
       LET e == MetricsDoErr(o) IN
       /\ sent' = [sent EXCEPT ![p] = Append(@, Sent(req[p], o))]
       /\ result' = [result EXCEPT ![p] =
            IF e # NilErr THEN MetricsFailed(batch[p], e)
            ELSE MetricsDone(batch[p])]
  /\ pc' = [pc EXCEPT ![p] = "exit"]
  /\ UNCHANGED <<config, wgVars, poolVars, prodVars, callVars, bodyVars,
                 loopVars, err>>

(***************************************************************************)
(* pushTraceData, sendSplunkEvents and postEvents.                         *)
(***************************************************************************)
\* lines 107 and 115: what a push of traces returns without failure
TraceDone(td) == [count |-> Converted(td).dropped, err |-> NilErr]
\* line 112: a failed push of traces
TraceFailed(td, e) == [count |-> SpanCount(td), err |-> e]

\* lines 105-108: traceDataToSplunk and the return when there are no events
TraceConvert(p) ==
  /\ pc[p] = "t_convert"
  /\ IF NoEvents(Converted(batch[p]).events)
     THEN /\ result' = [result EXCEPT ![p] = TraceDone(batch[p])]
          /\ pc' = [pc EXCEPT ![p] = "exit"]
     ELSE /\ pc' = [pc EXCEPT ![p] = "t_encode"]
          /\ UNCHANGED result
  /\ UNCHANGED <<config, wgVars, poolVars, prodVars, callVars, bodyVars,
                 loopVars, err, sent>>

\* line 119 with lines 209-219 and 236-238: encodeBodyEvents up to
\* getReader's decision to compress
TraceEncode(p) ==
  /\ pc[p] = "t_encode"
  /\ LET enc == encodeBodyEvents(Converted(batch[p]).events) IN
     IF enc.err
     THEN /\ err' = [err EXCEPT ![p] = PlainErr("json")]
          /\ pc' = [pc EXCEPT ![p] = "t_encoded"]
          /\ UNCHANGED <<buf, body, compressed>>
     ELSE IF getReaderCompresses(config.disableCompression, BufLen(enc.buf))
     THEN /\ buf' = [buf EXCEPT ![p] = enc.buf]
          /\ pc' = [pc EXCEPT ![p] = "gr_get"]
          /\ UNCHANGED <<err, body, compressed>>
     ELSE /\ buf' = [buf EXCEPT ![p] = enc.buf]
          /\ body' = [body EXCEPT ![p] = RawBody(enc.buf)]
          /\ compressed' = [compressed EXCEPT ![p] = FALSE]
          /\ err' = [err EXCEPT ![p] = NilErr]
          /\ pc' = [pc EXCEPT ![p] = "t_encoded"]
  /\ UNCHANGED <<config, wgVars, poolVars, prodVars, callVars, req, loopVars,
                 sent, result>>

\* lines 120-124: sendSplunkEvents wraps the encoding error or posts
TraceEncoded(p) ==
  /\ pc[p] = "t_encoded"
  /\ IF err[p] # NilErr
     THEN /\ err' = [err EXCEPT ![p] = Permanent(err[p])]
          /\ pc' = [pc EXCEPT ![p] = "t_sent"]
     ELSE /\ pc' = [pc EXCEPT ![p] = "post_new"]
          /\ UNCHANGED err
  /\ UNCHANGED <<config, wgVars, poolVars, prodVars, callVars, bodyVars,
                 loopVars, sent, result>>

\* where postEvents returns to
PostedPc(k) == IF k = "logs" THEN "l_posted" ELSE "t_sent"

\* the events of the body postEvents is called with
PostSrc(p) ==
  IF kind[p] = "logs"
  THEN SubSeq(batch[p].events, cur[p].index, cur[p].index + cur[p].n - 1)
  ELSE Converted(batch[p]).events

\* lines 128-139: http.NewRequestWithContext and the headers, in postEvents
PostNewRequest(p) ==
  /\ pc[p] = "post_new"
  /\ \/ /\ err' = [err EXCEPT ![p] = Permanent(PlainErr("request"))]
        /\ pc' = [pc EXCEPT ![p] = PostedPc(kind[p])]
        /\ UNCHANGED req
     \/ /\ req' = [req EXCEPT ![p] =
               NewRequest(body[p], compressed[p], PostSrc(p), chunkNo[p])]
        /\ pc' = [pc EXCEPT ![p] = "post_do"]
        /\ UNCHANGED err
  /\ UNCHANGED <<config, wgVars, poolVars, prodVars, callVars, buf, body,
                 compressed, loopVars, sent, result>>

\* lines 141-157: c.client.Do and the status check, in postEvents
PostDo(p, outcomes) ==
  /\ pc[p] = "post_do"
  /\ \E o \in outcomes :
       /\ sent' = [sent EXCEPT ![p] = Append(@, Sent(req[p], o))]
       /\ err' = [err EXCEPT ![p] = PostDoErr(o)]
  /\ pc' = [pc EXCEPT ![p] = PostedPc(kind[p])]
  /\ UNCHANGED <<config, wgVars, poolVars, prodVars, callVars, bodyVars,
                 loopVars, result>>

\* lines 110-115: pushTraceData after sendSplunkEvents
TraceSent(p) ==
  /\ pc[p] = "t_sent"
  /\ result' = [result EXCEPT ![p] =
       IF err[p] # NilErr THEN TraceFailed(batch[p], err[p])
       ELSE TraceDone(batch[p])]
  /\ pc' = [pc EXCEPT ![p] = "exit"]
  /\ UNCHANGED <<config, wgVars, poolVars, prodVars, callVars, bodyVars,
                 loopVars, err, sent>>

(***************************************************************************)
(* pushLogData and the chunk producer.                                     *)
(***************************************************************************)
\* line 185: whether a chunk of n bytes is posted as it is
logSendsRaw(n, disableCompression) ==
  n <= CompressionThreshold \/ disableCompression

\* the return on an error chunk that counts the whole batch
LogChunkFailedWholeBatch(ld, chunk) ==
  [count |-> numLogs(ld, 1), err |-> chunk.err]

\* line 177: the return on a chunk that carries an error
LogChunkFailed(ld, chunk) ==
  [count |-> numLogs(ld, chunk.index), err |-> chunk.err]
\* the return on a failed postEvents that hands the whole batch back
LogPostFailedWholeBatch(ld, chunk, e) ==
  [count |-> numLogs(ld, 1), err |-> PartialLogsError(e, subLogs(ld, 1))]

\* lines 187 and 199: the return on a failed postEvents
LogPostFailed(ld, chunk, e) ==
  [count |-> numLogs(ld, chunk.index),
   err |-> PartialLogsError(e, subLogs(ld, chunk.index))]
\* line 193: the return on a failed gzipWriter.Write
LogWriteFailed(ld, chunk, e) ==
  [count |-> numLogs(ld, chunk.index), err |-> Permanent(e)]
\* line 206: the return after the last chunk
LogDone == [count |-> 0, err |-> NilErr]

\* a loop that takes no chunk for empty
ChunkIsEmptyNever(chunk) == FALSE

\* line 180: the buffer of the chunk is empty
ChunkIsEmpty(chunk) == Len(chunk.buf) = 0

\* a return of pushLogData that runs no deferred cancel()
LogReturnPcSkipsCancel == "l_close"

\* lines 165, 169 and 173: a return of pushLogData runs the deferred calls in
\* reverse order, cancel() first
LogReturnPc == "l_cancel"

\* a gzipBuf that keeps what it holds over the next chunk
GzipBufKept(g) == g

\* line 202: gzipBuf.Reset()
GzipBufReset(g) == EmptyGzipBuf

\* lines 164-169: zippers.Get(), gzipBuf, gzipWriter.Reset(gzipBuf); the
\* deferred Put and Close are armed
LogGet(p) ==
  /\ pc[p] = "l_get"
  /\ \E e \in PoolCandidates(zwOf) :
       /\ pool' = pool \ {e}
       /\ zwOf' = [zwOf EXCEPT ![p] = e]
       /\ zw' = [zw EXCEPT ![e] = ResetZipper(p)]
  /\ gzbuf' = [gzbuf EXCEPT ![p] = EmptyGzipBuf]
  /\ pc' = [pc EXCEPT ![p] = "l_chunks"]
  /\ UNCHANGED <<config, wgVars, prodVars, callVars, bodyVars, loopVars, err,
                 sent, result>>

\* lines 171-173: logs.chunkEvents starts the producer; cancel is deferred
LogChunkEvents(p) ==
  /\ pc[p] = "l_chunks"
  /\ prodPc' = [prodPc EXCEPT ![p] = "run"]
  /\ prodPos' = [prodPos EXCEPT ![p] = 1]
  /\ pc' = [pc EXCEPT ![p] = "l_recv"]
  /\ UNCHANGED <<config, wgVars, poolVars, chunkCh, chClosed, cancelled,
                 callVars, bodyVars, loopVars, err, sent, result>>

\* the producer hands the next chunk over; after the last chunk, or after
\* an error chunk, it closes the channel
ProducerSend(p) ==
  /\ prodPc[p] = "run"
  /\ ~cancelled[p]
  /\ chunkCh[p] = <<>>
  /\ LET c == NextChunk(batch[p].events, prodPos[p], config.maxContentLength)
         last == c.err # NilErr \/ prodPos[p] + c.n > Len(batch[p].events)
     IN /\ chunkCh' = [chunkCh EXCEPT ![p] = <<c>>]
        /\ prodPos' = [prodPos EXCEPT ![p] = @ + c.n]
        /\ chClosed' = [chClosed EXCEPT ![p] = last]
        /\ prodPc' = [prodPc EXCEPT ![p] = IF last THEN "done" ELSE "run"]
  /\ UNCHANGED <<config, wgVars, poolVars, cancelled, pc, callVars, bodyVars,
                 loopVars, err, sent, result>>

\* the producer sees the cancellation, closes the channel and ends
ProducerCancelled(p) ==
  /\ prodPc[p] = "run"
  /\ cancelled[p]
  /\ prodPc' = [prodPc EXCEPT ![p] = "done"]
  /\ chClosed' = [chClosed EXCEPT ![p] = TRUE]
  /\ UNCHANGED <<config, wgVars, poolVars, prodPos, chunkCh, cancelled, pc,
                 callVars, bodyVars, loopVars, err, sent, result>>

\* lines 175-190 and 206: the loop receives a chunk and decides what to do
\* with it, or finds the channel closed
LogRecv(p) ==
  /\ pc[p] = "l_recv"
  /\ \/ /\ chunkCh[p] # <<>>
        /\ LET chunk == Head(chunkCh[p]) IN
           /\ chunkCh' = [chunkCh EXCEPT ![p] = <<>>]
           /\ cur' = [cur EXCEPT ![p] = chunk]
           /\ chunkNo' = [chunkNo EXCEPT ![p] = @ + 1]
           /\ IF chunk.err # NilErr
              THEN /\ result' = [result EXCEPT
                          ![p] = LogChunkFailed(batch[p], chunk)]
                   /\ pc' = [pc EXCEPT ![p] = LogReturnPc]
                   /\ UNCHANGED <<body, compressed>>
              ELSE IF ChunkIsEmpty(chunk)
              THEN UNCHANGED <<pc, result, body, compressed>>
              ELSE IF logSendsRaw(BufLen(chunk.buf), config.disableCompression)
              THEN /\ body' = [body EXCEPT ![p] = RawBody(chunk.buf)]
                   /\ compressed' = [compressed EXCEPT ![p] = FALSE]
                   /\ pc' = [pc EXCEPT ![p] = "post_new"]
                   /\ UNCHANGED result
              ELSE /\ pc' = [pc EXCEPT ![p] = "l_write"]
                   /\ UNCHANGED <<result, body, compressed>>
     \/ /\ chunkCh[p] = <<>>
        /\ chClosed[p]
        /\ result' = [result EXCEPT ![p] = LogDone]
        /\ pc' = [pc EXCEPT ![p] = LogReturnPc]
        /\ UNCHANGED <<chunkCh, cur, chunkNo, body, compressed>>
  /\ UNCHANGED <<config, wgVars, poolVars, prodPc, prodPos, chClosed,
                 cancelled, callVars, buf, req, err, sent>>

\* lines 192-196: gzipWriter.Write(chunk.buf.Bytes()) and gzipWriter.Flush();
\* gzipBuf is what postEvents is then called with
LogGzipWrite(p, outcomes) ==
  /\ pc[p] = "l_write"
  /\ LET e == zwOf[p]
         w1 == ZWrite(zw[e], cur[p].buf)
         g1 == BufAfterWrite(GzOf(gzbuf, zw[e]), zw[e])
         g2 == BufAfterFlush(g1, w1)
     IN \E o \in outcomes :
          IF o = "write_fails"
          THEN /\ result' = [result EXCEPT
                      ![p] = LogWriteFailed(batch[p], cur[p], PlainErr("gzip"))]
               /\ pc' = [pc EXCEPT ![p] = LogReturnPc]
               /\ UNCHANGED <<zw, gzbuf, body, compressed>>
          ELSE /\ zw' = [zw EXCEPT ![e] = ZFlush(w1)]
               /\ gzbuf' = GzUpdate(gzbuf, zw[e], g2)
               /\ body' = [body EXCEPT ![p] = GzUpdate(gzbuf, zw[e], g2)[p]]
               /\ compressed' = [compressed EXCEPT ![p] = TRUE]
               /\ pc' = [pc EXCEPT ![p] = "post_new"]
               /\ UNCHANGED result
  /\ UNCHANGED <<config, wgVars, pool, zwOf, prodVars, callVars, buf, req,
                 loopVars, err, sent>>

\* lines 186-190 and 198-203: pushLogData after postEvents
LogPosted(p) ==
  /\ pc[p] = "l_posted"
  /\ IF err[p] # NilErr
     THEN /\ result' = [result EXCEPT
                 ![p] = LogPostFailed(batch[p], cur[p], err[p])]
          /\ pc' = [pc EXCEPT ![p] = LogReturnPc]
          /\ UNCHANGED <<zw, gzbuf>>
     ELSE /\ pc' = [pc EXCEPT ![p] = "l_recv"]
          /\ UNCHANGED result
          /\ IF compressed[p]
             THEN /\ gzbuf' = [gzbuf EXCEPT ![p] = GzipBufReset(@)]
                  /\ zw' = [zw EXCEPT ![zwOf[p]] = ResetZipper(p)]
             ELSE UNCHANGED <<zw, gzbuf>>
  /\ UNCHANGED <<config, wgVars, pool, zwOf, prodVars, callVars, bodyVars,
                 loopVars, err, sent>>

\* the deferred cancel() of line 173
LogCancel(p) ==
  /\ pc[p] = "l_cancel"
  /\ cancelled' = [cancelled EXCEPT ![p] = TRUE]
  /\ pc' = [pc EXCEPT ![p] = "l_close"]
  /\ UNCHANGED <<config, wgVars, poolVars, prodPc, prodPos, chunkCh, chClosed,
                 callVars, bodyVars, loopVars, err, sent, result>>

\* the deferred gzipWriter.Close() of line 169 and zippers.Put of line 165
LogClosePut(p) ==
  /\ pc[p] = "l_close"
  /\ LET e == zwOf[p] IN
     /\ zw' = [zw EXCEPT ![e] = ZClose(zw[e])]
     /\ gzbuf' = GzUpdate(gzbuf, zw[e], BufAfterClose(GzOf(gzbuf, zw[e]), zw[e]))
     /\ pool' = pool \cup {e}
  /\ zwOf' = [zwOf EXCEPT ![p] = 0]
  /\ pc' = [pc EXCEPT ![p] = "exit"]
  /\ UNCHANGED <<config, wgVars, prodVars, callVars, bodyVars, loopVars, err,
                 sent, result>>

(***************************************************************************)
(* stop(): c.wg.Wait().                                                    *)
(***************************************************************************)
\* a caller invokes stop(ctx), for the first time or again after an earlier
\* stop() has returned
StopCall ==
  /\ stopPc \in {"idle", "returned"}
  /\ stopPc' = "called"
  /\ UNCHANGED <<config, wg, poolVars, prodVars, pc, callVars, bodyVars,
                 loopVars, err, sent, result>>

\* line 255, wg.Wait(): with the counter at zero it goes on, otherwise the
\* caller blocks as a waiter
WaitEnters(counter) == IF counter = 0 THEN "woken" ELSE "blocked"

StopWait ==
  /\ stopPc = "called"
  /\ stopPc' = WaitEnters(wg)
  /\ UNCHANGED <<config, wg, poolVars, prodVars, pc, callVars, bodyVars,
                 loopVars, err, sent, result>>

\* the released waiter runs again: Wait panics ("WaitGroup is reused before
\* previous Wait has returned") when the counter is not zero any more
StopWake ==
  /\ stopPc = "released"
  /\ stopPc' = IF wg # 0 THEN "panicked" ELSE "woken"
  /\ UNCHANGED <<config, wg, poolVars, prodVars, pc, callVars, bodyVars,
                 loopVars, err, sent, result>>

\* line 256: stop returns nil
StopReturn ==
  /\ stopPc = "woken"
  /\ stopPc' = "returned"
  /\ UNCHANGED <<config, wg, poolVars, prodVars, pc, callVars, bodyVars,
                 loopVars, err, sent, result>>

(***************************************************************************)
(* The specifications.  Spec: one caller, every batch and every outcome of *)
(* the transport.  SpecConc: concurrent callers and stop(), few batches.   *)
(* SpecLogsFair: one pushLogData and its producer, under fair scheduling   *)
(* of the producer.                                                        *)
(***************************************************************************)
Statuses == {199, 200, 299, 300}
GzipOutcomes == {"ok", "write_fails", "close_fails"}
GzipWriteOutcomes == {"ok", "write_fails"}

Next ==
  \E p \in SeqPushers :
    \/ CallPushMetricsData(p, Batches(MaxEvents, MaxDropped))
    \/ CallPushTraceData(p, Batches(MaxEvents, MaxDropped))
    \/ CallPushLogData(p, Batches(MaxLogs, 0))
    \/ WgAdd(p)
    \/ MetricsConvert(p)
    \/ MetricsEncode(p)
    \/ MetricsEncoded(p)
    \/ MetricsNewRequest(p)
    \/ MetricsDo(p, DoOutcomes(Statuses))
    \/ TraceConvert(p)
    \/ TraceEncode(p)
    \/ TraceEncoded(p)
    \/ TraceSent(p)
    \/ ReaderGet(p)
    \/ ReaderWrite(p, GzipOutcomes)
    \/ ReaderPut(p)
    \/ PostNewRequest(p)
    \/ PostDo(p, DoOutcomes(Statuses))
    \/ LogGet(p)
    \/ LogChunkEvents(p)
    \/ ProducerSend(p)
    \/ ProducerCancelled(p)
    \/ LogRecv(p)
    \/ LogGzipWrite(p, GzipWriteOutcomes)
    \/ LogPosted(p)
    \/ LogCancel(p)
    \/ LogClosePut(p)
    \/ WgDone(p)
    \/ Return(p)

Spec == Init /\ [][Next]_vars


\* the batches and outcomes of the concurrent specification
ConcBatches ==
  {[events |-> <<BigEvent>>, dropped |-> 0],
   [events |-> <<BadEvent>>, dropped |-> 0],
   [events |-> <<>>, dropped |-> 1]}
ConcLogBatches == {[events |-> <<BigEvent, BigEvent>>, dropped |-> 0]}
ConcStatuses == {200, 300}

InitConc ==
  Init /\ config = [disableCompression |-> FALSE, maxContentLength |-> 250]

NextConc ==
  \/ \E p \in Pushers :
       \/ CallPushMetricsData(p, ConcBatches)
       \/ CallPushTraceData(p, ConcBatches)
       \/ CallPushLogData(p, ConcLogBatches)
       \/ WgAdd(p)
       \/ MetricsConvert(p)
       \/ MetricsEncode(p)
       \/ MetricsEncoded(p)
       \/ MetricsNewRequest(p)
       \/ MetricsDo(p, DoOutcomes(ConcStatuses))
       \/ TraceConvert(p)
       \/ TraceEncode(p)
       \/ TraceEncoded(p)
       \/ TraceSent(p)
       \/ ReaderGet(p)
       \/ ReaderWrite(p, GzipOutcomes)
       \/ ReaderPut(p)
       \/ PostNewRequest(p)
       \/ PostDo(p, DoOutcomes(ConcStatuses))
       \/ LogGet(p)
       \/ LogChunkEvents(p)
       \/ ProducerSend(p)
       \/ ProducerCancelled(p)
       \/ LogRecv(p)
       \/ LogGzipWrite(p, GzipWriteOutcomes)
       \/ LogPosted(p)
       \/ LogCancel(p)
       \/ LogClosePut(p)
       \/ WgDone(p)
       \/ Return(p)
  \/ StopCall
  \/ StopWait
  \/ StopWake
  \/ StopReturn

SpecConc == InitConc /\ [][NextConc]_vars

\* one caller of pushLogData, every batch of logs, with compression enabled
\* and chunks of at most 250 bytes
NextLogs ==
  \E p \in SeqPushers :
    \/ CallPushLogData(p, Batches(MaxLogs, 0))
    \/ WgAdd(p)
    \/ PostNewRequest(p)
    \/ PostDo(p, DoOutcomes(ConcStatuses))
    \/ LogGet(p)
    \/ LogChunkEvents(p)
    \/ ProducerSend(p)
    \/ ProducerCancelled(p)
    \/ LogRecv(p)
    \/ LogGzipWrite(p, GzipWriteOutcomes)
    \/ LogPosted(p)
    \/ LogCancel(p)
    \/ LogClosePut(p)
    \/ WgDone(p)
    \/ Return(p)

\* the chunk producer is a goroutine of its own: the scheduler lets it run
ProducerStep == \E p \in Pushers : ProducerSend(p) \/ ProducerCancelled(p)

\* pushLogData with the scheduling of the producer goroutine
SpecLogsFair == InitConc /\ [][NextLogs]_vars /\ WF_vars(ProducerStep)

(***************************************************************************)
(* What the claims speak about.                                            *)
(***************************************************************************)
\* the push has been called and has not returned
InFlight(p) == pc[p] \notin {"idle", "returned"}
\* the push has executed c.wg.Add(1) and not yet c.wg.Done()
Registered(p) == pc[p] \notin {"idle", "entered", "ret", "returned"}
\* the push has set what it returns
HasResult(p) == pc[p] \in {"l_cancel", "l_close", "exit", "ret", "returned"}

\* a response status of the class 2xx
Is2xx(s) == 200 <= s /\ s < 300
Accepted(o) == ~o.transport /\ Is2xx(o.status)

\* the chunks the producer yields for a batch, in order
RECURSIVE ChunkList(_, _, _)
ChunkList(recs, pos, max) ==
  LET c == NextChunk(recs, pos, max) IN
  IF c.err # NilErr \/ pos + c.n > Len(recs) THEN <<c>>
  ELSE <<c>> \o ChunkList(recs, pos + c.n, max)

ChunksOf(p) == ChunkList(batch[p].events, 1, config.maxContentLength)

\* the number of records in the chunks before chunk k
RECURSIVE RecordsBefore(_, _)
RecordsBefore(chunks, k) ==
  IF k <= 1 THEN 0 ELSE chunks[k - 1].n + RecordsBefore(chunks, k - 1)

\* the records of chunk k and of every later chunk
RecordsFrom(p, k) ==
  SubSeq(batch[p].events, RecordsBefore(ChunksOf(p), k) + 1, Len(batch[p].events))

\* the size of the uncompressed body of a request
PlainSize(r) == BufLen(EncodeLoop(r.src))

\* C1: stop() does not return while a push is in flight, whatever the
\* interleaving of the pushes with stop(); stated for the pushes that are
\* between their c.wg.Add(1) and their c.wg.Done(), the narrowest reading
\* of "in flight"
C1_StopWaitsForPushes ==
  [][(stopPc = "woken" /\ stopPc' = "returned")
       => \A p \in Pushers : ~Registered(p)]_vars

\* C2: when the transmission of chunk k fails, pushLogData returns the count
\* of the records of the chunks k..n and a partial error that carries exactly
\* these records and none of the chunks 1..k-1, in the raw and in the
\* compressed branch
C2_PartialFailureIsRemainder ==
  \A p \in Pushers :
    (/\ kind[p] = "logs" /\ HasResult(p)
     /\ result[p].err.cause \in {"transport", "http", "request"})
      => /\ result[p].err.type = "partial"
         /\ result[p].count = Len(RecordsFrom(p, chunkNo[p]))
         /\ result[p].err.failed = RecordsFrom(p, chunkNo[p])
         /\ result[p].count + RecordsBefore(ChunksOf(p), chunkNo[p])
              = Len(batch[p].events)

\* C2 witness: the second chunk of a push failed in the compressed branch
\* after the first one was accepted
C2_Witness ==
  \E p \in Pushers :
    /\ kind[p] = "logs" /\ pc[p] = "l_cancel"
    /\ result[p].err.type = "partial"
    /\ chunkNo[p] = 2 /\ compressed[p]
    /\ Len(sent[p]) = 2 /\ Accepted(sent[p][1].outcome)

\* C3: a body goes out compressed iff compression is enabled and its
\* uncompressed size is above 1500 bytes, on every path
C3_CompressedIffAboveThreshold ==
  \A p \in Pushers : \A i \in 1..Len(sent[p]) :
    (sent[p][i].body.form = "gzip")
      <=> (~config.disableCompression /\ PlainSize(sent[p][i]) > 1500)

\* C3 witness: one push sent a body of exactly 1500 bytes as it is and a
\* body of 1501 bytes compressed
C3_Witness ==
  \E p \in Pushers : \E i, j \in 1..Len(sent[p]) :
    /\ ~config.disableCompression
    /\ PlainSize(sent[p][i]) = 1500 /\ sent[p][i].body.form = "raw"
    /\ PlainSize(sent[p][j]) = 1501 /\ sent[p][j].body.form = "gzip"

\* the records of the requests of a push, in the order they were issued
RECURSIVE SentRecords(_)
SentRecords(reqs) ==
  IF reqs = <<>> THEN <<>> ELSE Head(reqs).src \o SentRecords(Tail(reqs))

\* every body of the batch was transmitted and answered with a 2xx status
FullSuccess(p) ==
  /\ HasResult(p)
  /\ \A i \in 1..Len(sent[p]) : Accepted(sent[p][i].outcome)
  /\ SentRecords(sent[p]) = batch[p].events

\* C4: a push that succeeds fully returns the count the converter dropped
\* before the handoff and a nil error, for metrics, traces and logs
C4_FullSuccessReturnsPreDropped ==
  \A p \in Pushers :
    FullSuccess(p) => result[p] = [count |-> batch[p].dropped, err |-> NilErr]

\* C4 witness: a push of metrics whose converter dropped a point and whose
\* body was accepted
C4_Witness ==
  \E p \in Pushers :
    /\ kind[p] = "metrics" /\ FullSuccess(p)
    /\ batch[p].dropped = 1 /\ Len(sent[p]) = 1

\* C5: a failed push of metrics or traces returns the full record count of
\* the batch; an encoding or request construction failure is permanent, a
\* transport failure or a non-2xx response is not
C5_FailuresReturnFullCount ==
  \A p \in Pushers :
    (kind[p] \in {"metrics", "traces"} /\ HasResult(p)) =>
      LET r == result[p]
          evs == batch[p].events
      IN /\ r.err # NilErr => r.count = Len(evs) + batch[p].dropped
         /\ r.err.cause \in {"json", "gzip", "request"} => IsPermanent(r.err)
         /\ r.err.cause \in {"transport", "http"} => ~IsPermanent(r.err)
         /\ (evs # <<>> /\ ~Serializable(evs)) => r.err.cause = "json"
         /\ \A i \in 1..Len(sent[p]) :
              ~Accepted(sent[p][i].outcome)
                => r.err.cause \in {"transport", "http"}

\* C5 witness: a push of traces with a dropped span failed in the transport
C5_Witness ==
  \E p \in Pushers :
    /\ kind[p] = "traces" /\ HasResult(p)
    /\ batch[p].dropped = 1
    /\ result[p].err.cause = "transport"
    /\ result[p].count = Len(batch[p].events) + 1

\* C6: in pushLogData a request construction failure or a failure of the
\* compression write is returned as a permanent error with the full batch
\* as dropped
C6_LogPermanentFailure ==
  \A p \in Pushers :
    (/\ kind[p] = "logs" /\ HasResult(p)
     /\ result[p].err.cause \in {"request", "gzip"})
      => /\ IsPermanent(result[p].err)
         /\ result[p].count = Len(batch[p].events)

\* what a transmission must come back with for the outcome o of c.client.Do
Classified(o, e) ==
  IF o.transport
  THEN e # NilErr /\ e.cause = "transport" /\ e.status = 0
  ELSE /\ (e = NilErr) <=> Is2xx(o.status)
       /\ e # NilErr => (e.status = o.status /\ e.text = StatusText(o.status))

\* postEvents has come back from c.client.Do
PostedAfterDo(p) ==
  /\ pc[p] \in {"t_sent", "l_posted"}
  /\ Len(sent[p]) > 0
  /\ sent[p][Len(sent[p])].chunk = chunkNo[p]

\* C7: a transmission succeeds iff the status is in [200, 300); any other
\* status gives an error with the status code and its text, a transport
\* failure an error without a status
C7_StatusClassification ==
  \A p \in Pushers :
    /\ PostedAfterDo(p) => Classified(sent[p][Len(sent[p])].outcome, err[p])
    /\ (kind[p] = "metrics" /\ HasResult(p) /\ Len(sent[p]) = 1)
         => Classified(sent[p][1].outcome, result[p].err)

\* C7 witness: postEvents got the status 300 and returned its error
C7_Witness ==
  \E p \in Pushers :
    /\ PostedAfterDo(p)
    /\ sent[p][Len(sent[p])].outcome = Response(300)
    /\ err[p].status = 300 /\ err[p].text = "Multiple Choices"

\* what the receiver reads out of a body: a gzip stream must be complete
Gunzip(w) ==
  IF w.form = "raw" THEN [ok |-> TRUE, bytes |-> w.bytes]
  ELSE IF w.hdr /\ w.trailer THEN [ok |-> TRUE, bytes |-> w.bytes]
  ELSE [ok |-> FALSE, bytes |-> <<>>]

RECURSIVE SkipNL(_)
SkipNL(b) == IF b # <<>> /\ Head(b).tok = "nl" THEN SkipNL(Tail(b)) ELSE b

\* splitting on the separator and parsing one JSON object per part
RECURSIVE ParseBody(_)
ParseBody(b) ==
  IF b = <<>> THEN [ok |-> TRUE, events |-> <<>>]
  ELSE IF Head(b).tok # "json" THEN [ok |-> FALSE, events |-> <<>>]
  ELSE LET rest == SkipNL(Tail(b)) IN
       IF rest = <<>> \/ Head(rest).tok # "sep"
       THEN [ok |-> FALSE, events |-> <<>>]
       ELSE LET r == ParseBody(Tail(rest)) IN
            [ok |-> r.ok,
             events |-> IF r.ok THEN <<Head(b).ev>> \o r.events ELSE <<>>]

Decode(w) ==
  IF Gunzip(w).ok THEN ParseBody(Gunzip(w).bytes)
  ELSE [ok |-> FALSE, events |-> <<>>]

\* C8: every body handed to the transport decodes back to the events it
\* was built from; a compressed body is a complete gzip stream
C8_RoundTrip ==
  \A p \in Pushers : \A i \in 1..Len(sent[p]) :
    Decode(sent[p][i].body) = [ok |-> TRUE, events |-> sent[p][i].src]

\* the request carries Content-Encoding: gzip
HasGzipHeader(r) ==
  "Content-Encoding" \in DOMAIN r.headers /\ r.headers["Content-Encoding"] = "gzip"

\* C9: a request carries Content-Encoding: gzip iff its body is the
\* compressed form
C9_ContentEncodingIffCompressed ==
  \A p \in Pushers : \A i \in 1..Len(sent[p]) :
    HasGzipHeader(sent[p][i]) <=> sent[p][i].body.form = "gzip"

\* C9 witness: a push of logs sent a raw chunk without the header and a
\* compressed chunk with it
C9_Witness ==
  \E p \in Pushers : \E i, j \in 1..Len(sent[p]) :
    /\ kind[p] = "logs"
    /\ sent[p][i].body.form = "raw" /\ ~HasGzipHeader(sent[p][i])
    /\ sent[p][j].body.form = "gzip" /\ HasGzipHeader(sent[p][j])

\* the chunk the loop of pushLogData received last is an error chunk
AtErrorChunk(p) ==
  /\ kind[p] = "logs"
  /\ chunkNo[p] >= 1
  /\ ChunksOf(p)[chunkNo[p]].err # NilErr

\* C10: on a chunk that carries a terminal error pushLogData returns at
\* once with that error and the count of the records from this chunk on;
\* no request goes out for this chunk or a later one
C10_TerminalChunk ==
  \A p \in Pushers :
    AtErrorChunk(p) =>
      /\ HasResult(p)
      /\ result[p].err = ChunksOf(p)[chunkNo[p]].err
      /\ result[p].count = Len(RecordsFrom(p, chunkNo[p]))
      /\ result[p].count + RecordsBefore(ChunksOf(p), chunkNo[p])
           = Len(batch[p].events)
      /\ \A i \in 1..Len(sent[p]) : sent[p][i].chunk < chunkNo[p]

\* C10 witness: the second chunk carried the error, the first was accepted
C10_Witness ==
  \E p \in Pushers :
    /\ AtErrorChunk(p) /\ chunkNo[p] = 2
    /\ Len(sent[p]) = 1 /\ Accepted(sent[p][1].outcome)
    /\ result[p].count = Len(batch[p].events) - 1

\* the records of the batch that the chunk c holds
ChunkRecords(recs, c) == SubSeq(recs, c.index, c.index + c.n - 1)

\* the chunk needs no request: it is empty
Skipped(c) == c.err = NilErr /\ c.buf = <<>>

\* C11: within one pushLogData the requests go out in the order of the
\* chunks, at most one per chunk and none a second time; the request for a
\* chunk is issued only when every earlier chunk was accepted or skipped,
\* and after a failed transmission the push issues no further request
C11_ChunksInOrderOnce ==
  \A p \in Pushers :
    kind[p] = "logs" =>
      LET s == sent[p]
          chunks == ChunksOf(p)
      IN
      /\ \A i \in 1..Len(s) :
           /\ s[i].chunk \in 1..chunkNo[p]
           /\ s[i].src = ChunkRecords(batch[p].events, chunks[s[i].chunk])
      /\ \A i, j \in 1..Len(s) : i < j => s[i].chunk < s[j].chunk
      /\ \A i \in 1..Len(s) : i < Len(s) => Accepted(s[i].outcome)
      /\ pc[p] \in {"l_write", "post_new", "post_do"} =>
           /\ \A i \in 1..Len(s) :
                Accepted(s[i].outcome) /\ s[i].chunk < chunkNo[p]
           /\ \A k \in 1..(chunkNo[p] - 1) :
                Skipped(chunks[k]) \/ \E i \in 1..Len(s) : s[i].chunk = k

\* C11 witness: three chunks went out in order, the first two were
\* accepted, the third failed and the push has returned
C11_Witness ==
  \E p \in Pushers :
    /\ kind[p] = "logs" /\ pc[p] = "returned"
    /\ Len(sent[p]) = 3
    /\ \A i \in 1..3 : sent[p][i].chunk = i
    /\ Accepted(sent[p][1].outcome) /\ Accepted(sent[p][2].outcome)
    /\ ~Accepted(sent[p][3].outcome)
    /\ chunkNo[p] = 3

\* pushLogData has run its deferred calls up to and including cancel()
PastCancel(p) ==
  kind[p] = "logs" /\ pc[p] \in {"l_close", "exit", "ret", "returned"}

\* how the push came to return
LogExitPath(p) ==
  IF result[p].err = NilErr THEN "success"
  ELSE IF result[p].err.cause = "encode" THEN "error_chunk"
  ELSE IF result[p].err.cause = "gzip" THEN "write_failure"
  ELSE IF result[p].err.cause = "transport" THEN "transport_failure"
  ELSE "transmission_failure"

\* C12: on every exit path of pushLogData the cancellation signal of the
\* producer is raised before the push returns, and a producer that is still
\* running when the push has returned stops: it does not stay blocked on
\* the handoff channel
C12_CancelOnEveryExit ==
  /\ [](\A p \in Pushers : PastCancel(p) => cancelled[p])
  /\ \A p \in Pushers :
       (kind[p] = "logs" /\ pc[p] = "returned") ~> (prodPc[p] = "done")

\* C12 witness: the push returned on a failed transmission (the transport
\* failed, as it does when the context is cancelled mid-request) while the
\* producer still had a chunk to deliver, and the producer has stopped
C12_Witness ==
  \E p \in Pushers :
    /\ PastCancel(p) /\ pc[p] = "returned"
    /\ LogExitPath(p) = "transport_failure"
    /\ cancelled[p]
    /\ prodPc[p] = "done"
    /\ prodPos[p] <= Len(batch[p].events)

\* a stop() has been called and has not returned
StopPending == stopPc \in {"called", "blocked", "released", "woken", "panicked"}

\* the caller of stop() can take a step
StopCanStep == ENABLED (StopWait \/ StopWake \/ StopReturn)

\* C13: once every push that was in flight has returned, a pending stop()
\* returns: it is never left without a step to take while no push is in
\* flight; and a stop() that calls Wait while no push is registered, the
\* first one or one after the drain, goes on without blocking
C13_StopReturnsAfterDrain ==
  /\ []((StopPending /\ \A p \in Pushers : ~InFlight(p)) => StopCanStep)
  /\ [][(stopPc = "called" /\ \A p \in Pushers : ~Registered(p))
          => stopPc' # "blocked"]_vars

\* the push is inside the operation that borrowed its gzip writer: between
\* the zippers.Get() and the deferred zippers.Put() of getReader or of
\* pushLogData
Borrowing(p) ==
  pc[p] \in {"gr_write", "gr_put", "l_chunks", "l_recv", "l_write",
             "post_new", "post_do", "l_posted", "l_cancel", "l_close"}
    /\ (pc[p] \in {"post_new", "post_do"} => kind[p] = "logs")

\* the push is about to write to its gzip writer
AboutToWrite(p) == pc[p] \in {"gr_write", "l_write"}

\* the gzip writer e is as Reset left it, on the still empty buffer of p
FreshOn(e, p) ==
  /\ zw[e] = ResetZipper(p)
  /\ gzbuf[p] = EmptyGzipBuf

\* C14: under any interleaving of concurrent pushes a borrowed gzip writer
\* is held by one push only and is not in the pool meanwhile, it is reset
\* onto an empty output buffer of that push before a write, and it is put
\* back into the pool, once, by the time the borrowing operation returns
C14_PoolDiscipline ==
  /\ [](\A p \in Pushers :
          /\ Borrowing(p) <=> zwOf[p] # 0
          /\ zwOf[p] # 0 =>
               /\ zwOf[p] \in Engines \ pool
               /\ \A q \in Pushers \ {p} : zwOf[q] # zwOf[p]
               /\ zw[zwOf[p]].dst = p
          /\ AboutToWrite(p) => FreshOn(zwOf[p], p))
  /\ [][\A p \in Pushers :
          (zwOf[p] # 0 /\ zwOf'[p] # zwOf[p])
            => /\ zwOf'[p] = 0
               /\ zwOf[p] \notin pool
               /\ pool' = pool \cup {zwOf[p]}]_vars

\* C14 witness: two pushes hold different writers at the same time and are
\* both about to write, pushLogData to the writer it has already used and
\* reset for its first chunk, getReader to the one it has just borrowed
C14_Witness ==
  \E p, q \in Pushers :
    /\ p # q
    /\ pc[p] = "l_write" /\ pc[q] = "gr_write"
    /\ zwOf[p] # 0 /\ zwOf[q] # 0 /\ zwOf[p] # zwOf[q]
    /\ chunkNo[p] = 2
    /\ pool = {}

\* the chunk the loop of pushLogData received last is empty (the loop
\* variable is gone once the push has returned to its caller)
AtEmptyChunk(p) ==
  /\ kind[p] = "logs"
  /\ chunkNo[p] >= 1
  /\ pc[p] # "returned"
  /\ Skipped(cur[p])

\* C15: a chunk whose buffer is empty is skipped: no request goes out for
\* it, it gives no error, and the loop goes on to receive the next chunk
\* (or to find the channel closed and return 0 and nil)
C15_EmptyChunkSkipped ==
  \A p \in Pushers :
    AtEmptyChunk(p) =>
      /\ \A i \in 1..Len(sent[p]) : sent[p][i].chunk # chunkNo[p]
      /\ req[p].chunk # chunkNo[p]
      /\ pc[p] \in {"l_recv", "l_cancel", "l_close", "exit", "ret"}
      /\ err[p] = NilErr
      /\ HasResult(p) => result[p] = LogDone

\* C15 witness: the loop has received an empty chunk and is back at the
\* receive of the channel, with no request issued
C15_Witness ==
  \E p \in Pushers :
    /\ AtEmptyChunk(p)
    /\ pc[p] = "l_recv"
    /\ cur[p].buf = <<>> /\ cur[p].err = NilErr
    /\ sent[p] = <<>>

\* the body of the wire protocol: per event its JSON object and the
\* separator, nothing else
RECURSIVE JsonThenSeparator(_)
JsonThenSeparator(evs) ==
  IF evs = <<>> THEN <<>>
  ELSE <<Json(Head(evs)), SEP>> \o JsonThenSeparator(Tail(evs))

\* per event its JSON object, a line feed and the separator
RECURSIVE JsonLineThenSeparator(_)
JsonLineThenSeparator(evs) ==
  IF evs = <<>> THEN <<>>
  ELSE <<Json(Head(evs)), NL, SEP>> \o JsonLineThenSeparator(Tail(evs))

\* encodeBody / encodeBodyEvents has been called by the push and the push
\* has not returned
PastEncode(p) ==
  /\ kind[p] \in {"metrics", "traces"}
  /\ Converted(batch[p]).events # <<>>
  /\ pc[p] \in {"gr_get", "gr_write", "gr_put", "m_encoded", "m_newreq",
                "m_do", "t_encoded", "post_new", "post_do", "t_sent",
                "exit", "ret"}

\* a record that cannot be serialised: no body comes back and no request
\* is built or sent
NoBodyOnBadRecord(p) ==
  (PastEncode(p) /\ ~Serializable(Converted(batch[p]).events)) =>
    /\ buf[p] = <<>> /\ body[p] = NoBody /\ ~compressed[p]
    /\ req[p] = NoReq /\ sent[p] = <<>>
    /\ zwOf[p] = 0
    /\ HasResult(p) => IsPermanent(result[p].err)
    /\ ~HasResult(p) => err[p] # NilErr

\* C16 as stated: the uncompressed body of encodeBody / encodeBodyEvents is
\* the concatenation, in input order, of each event's JSON object followed
\* by "\r\n\r\n" with no other byte between or after the records; a record
\* that cannot be serialised gives no body and no request
C16_BodyIsJsonThenSeparator ==
  \A p \in Pushers :
    /\ (PastEncode(p) /\ Serializable(Converted(batch[p]).events))
         => buf[p] = JsonThenSeparator(Converted(batch[p]).events)
    /\ NoBodyOnBadRecord(p)

\* C16 as amended: each JSON object is followed by the line feed that
\* json.Encoder.Encode writes and then by "\r\n\r\n", in input order, with
\* no other byte; the bytes handed to the transport, raw or inside the
\* gzip stream, are these; a record that cannot be serialised gives no
\* body and no request
C16_BodyIsJsonLineThenSeparator ==
  \A p \in Pushers :
    /\ (PastEncode(p) /\ Serializable(Converted(batch[p]).events))
         => /\ buf[p] = JsonLineThenSeparator(Converted(batch[p]).events)
            /\ \A i \in 1..Len(sent[p]) :
                 sent[p][i].body.bytes = JsonLineThenSeparator(sent[p][i].src)
    /\ NoBodyOnBadRecord(p)

\* C16 witness: a body of two different events, in their order, went out
\* uncompressed
C16_Witness ==
  \E p \in Pushers :
    /\ PastEncode(p)
    /\ Converted(batch[p]).events = <<BigEvent, SmallEvent>>
    /\ Len(sent[p]) = 1
    /\ sent[p][1].body =
         RawBody(<<Json(BigEvent), NL, SEP, Json(SmallEvent), NL, SEP>>)

\* C17: the state stopped is terminal: once a stop() has returned no push
\* is in flight, whether the push was invoked during the stop() or after it;
\* stated for the pushes between their c.wg.Add(1) and their c.wg.Done()
C17_StoppedIsTerminal ==
  stopPc = "returned" => \A p \in Pushers : ~Registered(p)

\* pushLogData is in postEvents with the compressed body of its chunk
SendingCompressed(p) ==
  kind[p] = "logs" /\ pc[p] \in {"post_new", "post_do"} /\ compressed[p]

\* C18: in a pushLogData that sends compressed chunks, with uncompressed
\* ones between them or not, the body transmitted for chunk k holds the bytes
\* of chunk k and no others: the chunk is appended and flushed before it is
\* sent, and gzipBuf and the writer are reset after each compressed send
C18_CompressedBodyIsItsChunk ==
  \A p \in Pushers :
    kind[p] = "logs" =>
      /\ \A i \in 1..Len(sent[p]) :
           LET r == sent[p][i] IN
           /\ r.body.bytes = EncodeLoop(r.src)
           /\ r.body.form = "gzip" => r.body.hdr
      /\ SendingCompressed(p) =>
           /\ body[p] = gzbuf[p]
           /\ body[p].bytes = cur[p].buf
           /\ cur[p].buf = EncodeLoop(PostSrc(p))
           /\ zw[zwOf[p]].pending = <<>>
      /\ pc[p] \in {"l_recv", "l_write"} => FreshOn(zwOf[p], p)

\* C18 witness: a compressed chunk, an uncompressed one and a second
\* compressed one went out, each with its own bytes
C18_Witness ==
  \E p \in Pushers :
    /\ kind[p] = "logs"
    /\ Len(sent[p]) = 3
    /\ sent[p][1].body.form = "gzip" /\ sent[p][1].src = <<BigEvent>>
    /\ sent[p][2].body.form = "raw" /\ sent[p][2].src = <<SmallEvent>>
    /\ sent[p][3].body.form = "gzip" /\ sent[p][3].src = <<BigEvent>>
    /\ sent[p][3].body.bytes = EncodeOne(BigEvent)

\* the pushes that have executed c.wg.Add(1) and not yet c.wg.Done()
RegisteredPushes == {p \in Pushers : Registered(p)}

\* C19: the in-flight counter is the number of pushes that have entered
\* (executed c.wg.Add(1)) and not yet left (executed the deferred
\* c.wg.Done()); it is never negative, it is zero when every push has
\* returned, and it changes by one, with the push that enters or leaves
C19_CounterIsInFlightPushes ==
  /\ [](/\ wg = Cardinality(RegisteredPushes)
        /\ wg >= 0
        /\ (\A p \in Pushers : ~InFlight(p)) => wg = 0)
  /\ [][\A p \in Pushers :
          /\ (~Registered(p) /\ Registered(p)') => wg' = wg + 1
          /\ (Registered(p) /\ ~Registered(p)') => wg' = wg - 1
          /\ (pc[p] = "exit") => (pc'[p] = "exit" \/ ~Registered(p)')]_vars

\* C19 witness: one push has left through its early return with no events,
\* one through a failure, both have returned and the counter is back at zero
C19_Witness ==
  \E p, q \in Pushers :
    /\ pc[p] = "returned" /\ pc[q] = "returned"
    /\ batch[p].events = <<>> /\ result[p].err = NilErr
    /\ result[q].err # NilErr
    /\ wg = 0

\* a push of metrics or traces whose converter yields no events
ZeroEventsPush(p) ==
  /\ kind[p] \in {"metrics", "traces"}
  /\ Converted(batch[p]).events = <<>>

\* C20: when the converter yields no events pushMetricsData / pushTraceData
\* builds and sends no request and borrows no gzip writer, and returns the
\* count the converter dropped with a nil error
C20_ZeroEventsReturnEarly ==
  \A p \in Pushers :
    ZeroEventsPush(p) =>
      /\ sent[p] = <<>> /\ req[p] = NoReq
      /\ zwOf[p] = 0
      /\ (\A q \in Pushers \ {p} : pc[q] = "idle")
           => (pool = {} /\ zw = [e \in Engines |-> NewZipper])
      /\ pc[p] \in {"entered", "m_convert", "t_convert", "exit", "ret",
                    "returned"}
      /\ pc[p] \in {"exit", "ret", "returned"} =>
           result[p] = [count |-> Converted(batch[p]).dropped, err |-> NilErr]

\* C20 witness: a push of traces whose converter dropped the one span of
\* the batch has returned 1 and nil
C20_Witness ==
  \E p \in Pushers :
    /\ ZeroEventsPush(p) /\ kind[p] = "traces"
    /\ pc[p] = "returned"
    /\ batch[p].dropped = 1
    /\ result[p] = [count |-> 1, err |-> NilErr]
    /\ sent[p] = <<>>

====
